---- MODULE Spec2Model ----
(***************************************************************************)
(* Model of the S3/JSON -> TimescaleDB migration pipeline                  *)
(* (src/migrate_to_timescaledb.py, class S3ToTimescaleDBMigrator).         *)
(*                                                                         *)
(* JSON values, Python values and SQL values are all written as records    *)
(* [k, n, s]: k is the kind, n an integer payload, s a sequence of string  *)
(* tokens.  A Python string is the sequence of its tokens (a date, a time, *)
(* a separator, a blank, ...), so that str.replace, str.strip and          *)
(* datetime.strptime are computed on the text and not assumed.             *)
(* A float is kept in halves: n = 83 stands for 41.5.                      *)
(* A datetime is kept as n = 2 * day + (1 if it has a fractional second).  *)
(***************************************************************************)
EXTENDS Integers, Sequences, FiniteSets, TLC

\* ------------------------------------------------------------------------
\* Bounds of the model
\* ------------------------------------------------------------------------
MaxClock == 2
MaxFiles == 2
MaxRuns == 2
MaxPages == 2

\* ------------------------------------------------------------------------
\* Values
\* ------------------------------------------------------------------------
V(k, n, s) == [k |-> k, n |-> n, s |-> s]

Absent == V("absent", 0, <<>>)
Null == V("null", 0, <<>>)
Str(s) == V("str", 0, s)
IntV(n) == V("int", n, <<>>)
FloatV(n) == V("float", n, <<>>)
BoolV(b) == V("bool", IF b THEN 1 ELSE 0, <<>>)
Inf == V("inf", 0, <<>>)
BigInt == V("bigint", 0, <<>>)
ListV(n) == V("list", n, <<>>)
DateTime(n) == V("dt", n, <<>>)
Raise(e) == V("raise", 0, <<e>>)

IsRaise(v) == v.k = "raise"

\* dict.get(key): a missing key and a JSON null both give None
Get(record, key) == IF record[key] = Absent THEN Null ELSE record[key]

\* dict.get(key, ''): only a missing key gives the default
GetDefault(record, key) == IF record[key] = Absent THEN Str(<<>>) ELSE record[key]

\* Python truth value of a JSON value
Truthy(v) ==
    CASE v.k = "null" -> FALSE
      [] v.k = "absent" -> FALSE
      [] v.k = "str" -> v.s # <<>>
      [] v.k \in {"int", "float", "bool", "list"} -> v.n # 0
      [] OTHER -> TRUE

\* ------------------------------------------------------------------------
\* Text
\* ------------------------------------------------------------------------
DashedDates == {"2025-01-01", "2025-01-02"}
CompactDates == {"20250101", "20250102"}

DayOf(tok) ==
    CASE tok \in {"2025-01-01", "20250101"} -> 1
      [] tok \in {"2025-01-02", "20250102"} -> 2

RECURSIVE Replace(_, _)
\* str.replace(old, ''): every occurrence of the token is removed
Replace(s, old) ==
    IF s = <<>> THEN <<>>
    ELSE IF Head(s) = old THEN Replace(Tail(s), old)
    ELSE <<Head(s)>> \o Replace(Tail(s), old)

RECURSIVE LStrip(_)
LStrip(s) == IF s # <<>> /\ Head(s) = " " THEN LStrip(Tail(s)) ELSE s

RECURSIVE RStrip(_)
RStrip(s) ==
    IF s # <<>> /\ s[Len(s)] = " " THEN RStrip(SubSeq(s, 1, Len(s) - 1)) ELSE s

\* str.strip()
Strip(s) == RStrip(LStrip(s))

\* the four layouts of parse_timestamp, as sequences of directives/literals
formats ==
    << <<"%Y-%m-%d", "T", "%H:%M:%S", ".%f", "Z">>,
       <<"%Y-%m-%d", "T", "%H:%M:%S", "Z">>,
       <<"%Y-%m-%d", " ", "%H:%M:%S">>,
       <<"%Y%m%d", "_", "%H%M%S">> >>

TokMatches(tok, dir) ==
    CASE dir = "%Y-%m-%d" -> tok \in DashedDates
      [] dir = "%Y%m%d" -> tok \in CompactDates
      [] dir = "%H:%M:%S" -> tok = "12:00:00"
      [] dir = "%H%M%S" -> tok = "120000"
      [] dir = ".%f" -> tok = ".123456"
      [] OTHER -> tok = dir

\* datetime.strptime(s, fmt): the datetime written in s, or ValueError
Strptime(s, fmt) ==
    IF Len(s) = Len(fmt) /\ \A i \in 1..Len(fmt) : TokMatches(s[i], fmt[i])
    THEN DateTime(2 * DayOf(s[1]) + (IF \E i \in 1..Len(s) : s[i] = ".123456" THEN 1 ELSE 0))
    ELSE Raise("ValueError")

RECURSIVE TryFormats(_, _)
\* the loop of parse_timestamp over formats[i..]
TryFormats(timestamp_str, i) ==
    IF i > Len(formats) THEN Null
    ELSE IF timestamp_str.k # "str" THEN Raise("AttributeError")
    ELSE LET r == Strptime(Replace(timestamp_str.s, "Z"), formats[i])
         IN IF IsRaise(r) THEN TryFormats(timestamp_str, i + 1) ELSE r

parse_timestamp(timestamp_str) ==
    IF ~Truthy(timestamp_str) THEN Null ELSE TryFormats(timestamp_str, 1)

\* ------------------------------------------------------------------------
\* Numeric and string coercion (transform_record)
\* ------------------------------------------------------------------------
\* the numerals that occur in the modelled snapshots: int(text), float(text)
IntLiterals == {"350", "0"}
FloatLiterals == {"350", "0", "41.5"}

IntOfLiteral(tok) == CASE tok = "350" -> 350 [] tok = "0" -> 0

\* in halves
FloatOfLiteral(tok) == CASE tok = "350" -> 700 [] tok = "0" -> 0 [] tok = "41.5" -> 83

\* int(value): the integer, or the exception raised
PyInt(value) ==
    CASE value.k \in {"int", "bool"} -> IntV(value.n)
      [] value.k = "bigint" -> BigInt
      [] value.k = "float" -> IntV(value.n \div 2)
      [] value.k = "inf" -> Raise("OverflowError")
      [] value.k = "str" ->
            LET s == Strip(value.s)
            IN IF Len(s) = 1 /\ s[1] \in IntLiterals
               THEN IntV(IntOfLiteral(s[1])) ELSE Raise("ValueError")
      [] OTHER -> Raise("TypeError")

\* float(value): the float, or the exception raised
PyFloat(value) ==
    CASE value.k \in {"int", "bool"} -> FloatV(2 * value.n)
      [] value.k = "bigint" -> Raise("OverflowError")
      [] value.k \in {"float", "inf"} -> value
      [] value.k = "str" ->
            LET s == Strip(value.s)
            IN IF Len(s) = 1 /\ s[1] \in FloatLiterals
               THEN FloatV(FloatOfLiteral(s[1])) ELSE Raise("ValueError")
      [] OTHER -> Raise("TypeError")

\* try/except (ValueError, TypeError) of safe_int and safe_float
Except(r) == IF IsRaise(r) /\ r.s[1] \in {"ValueError", "TypeError"} THEN Null ELSE r

safe_int(value) == IF value = Null THEN Null ELSE Except(PyInt(value))

safe_float(value) == IF value = Null THEN Null ELSE Except(PyFloat(value))

\* str(value)
PyStr(value) ==
    CASE value.k = "str" -> value.s
      [] value.k = "null" -> <<"None">>
      [] value.k = "bool" -> IF value.n = 1 THEN <<"True">> ELSE <<"False">>
      [] value.k = "int" /\ value.n = 0 -> <<"0">>
      [] value.k = "int" /\ value.n = 350 -> <<"350">>
      [] value.k = "float" /\ value.n = 83 -> <<"41.5">>
      [] value.k = "inf" -> <<"inf">>
      [] OTHER -> <<"repr">>

\* x or None, for a string x
OrNone(s) == IF s = <<>> THEN Null ELSE Str(s)

\* x or y
Or(x, y) == IF Truthy(x) THEN x ELSE y

StringFields == {"ICAO", "Ident", "Airline", "Registration", "Aircraft_Type", "Data_Quality"}
FloatFields == {"Latitude", "Longitude", "Distance_NM", "Heading", "RSSI", "Age"}
IntFields == {"Altitude_ft", "Speed_kt", "Vertical_Rate_ft_min", "Messages"}
TimeFields == {"Position_Time", "First_Seen", "Last_Seen"}
Fields == StringFields \cup FloatFields \cup IntFields \cup TimeFields

\* the tuple built at lines 186-206, by column name
Tuple(record, record_time, first_seen, last_seen) ==
    [time |-> record_time,
     icao |-> Str(Strip(PyStr(GetDefault(record, "ICAO")))),
     flight |-> OrNone(Strip(PyStr(GetDefault(record, "Ident")))),
     airline |-> OrNone(Strip(PyStr(GetDefault(record, "Airline")))),
     registration |-> OrNone(Strip(PyStr(GetDefault(record, "Registration")))),
     aircraft_type |-> OrNone(Strip(PyStr(GetDefault(record, "Aircraft_Type")))),
     latitude |-> safe_float(Get(record, "Latitude")),
     longitude |-> safe_float(Get(record, "Longitude")),
     altitude_ft |-> safe_int(Get(record, "Altitude_ft")),
     speed_kt |-> safe_int(Get(record, "Speed_kt")),
     vertical_rate_ft_min |-> safe_int(Get(record, "Vertical_Rate_ft_min")),
     distance_nm |-> safe_float(Get(record, "Distance_NM")),
     heading |-> safe_float(Get(record, "Heading")),
     messages |-> safe_int(Get(record, "Messages")),
     rssi |-> safe_float(Get(record, "RSSI")),
     age |-> safe_float(Get(record, "Age")),
     data_quality |-> OrNone(Strip(PyStr(GetDefault(record, "Data_Quality")))),
     first_seen |-> first_seen,
     last_seen |-> last_seen]

Columns ==
    {"time", "icao", "flight", "airline", "registration", "aircraft_type", "latitude",
     "longitude", "altitude_ft", "speed_kt", "vertical_rate_ft_min", "distance_nm",
     "heading", "messages", "rssi", "age", "data_quality", "first_seen", "last_seen"}

\* transform_record(record) when datetime.now() gives clock: <<tuple>>, or
\* <<>> for None (the except Exception of line 208 catches whatever was raised)
transform_record(record, clock) ==
    LET pt == parse_timestamp(Get(record, "Position_Time"))
        ls == parse_timestamp(Get(record, "Last_Seen"))
        fs == parse_timestamp(Get(record, "First_Seen"))
    IN IF IsRaise(pt) THEN <<>>
       ELSE IF ~Truthy(pt) /\ IsRaise(ls) THEN <<>>
       ELSE LET record_time == Or(pt, Or(ls, DateTime(clock)))
            IN IF IsRaise(fs) \/ IsRaise(ls) THEN <<>>
               ELSE LET t == Tuple(record, record_time, Or(fs, record_time), Or(ls, record_time))
                    IN IF \E c \in Columns : IsRaise(t[c]) THEN <<>> ELSE <<t>>

\* lines 165-167: datetime.now() is evaluated only when neither Position_Time
\* nor Last_Seen gave a time
ReadsClock(record) ==
    LET pt == parse_timestamp(Get(record, "Position_Time"))
        ls == parse_timestamp(Get(record, "Last_Seen"))
    IN ~IsRaise(pt) /\ ~Truthy(pt) /\ ~IsRaise(ls) /\ ~Truthy(ls)

\* the clock readings a call of transform_record(record) may see
Readings(record, last) == IF ReadsClock(record) THEN last..MaxClock ELSE {last}

\* ------------------------------------------------------------------------
\* Snapshots and their records
\* ------------------------------------------------------------------------
EmptyRecord == [f \in Fields |-> Absent]

\* the text of a timestamp of day d in each layout the documentation names
Iso(d) == <<IF d = 1 THEN "2025-01-01" ELSE "2025-01-02", "T", "12:00:00">>
IsoMicro(d) == Iso(d) \o <<".123456">>
Plain(d) == <<IF d = 1 THEN "2025-01-01" ELSE "2025-01-02", " ", "12:00:00">>
Compact(d) == <<IF d = 1 THEN "20250101" ELSE "20250102", "_", "120000">>

Days == {1, 2}

\* a snapshot body: what json.loads gives for it, or that reading/decoding fails
Body(shape, items) == [shape |-> shape, items |-> items]

\* load_json_file wrapping whatever is not an array
load_json_file_wrapping(body) ==
    IF body.shape = "list" THEN body.items ELSE <<EmptyRecord>>

\* load_json_file(file_path): the list of raw records of one source
load_json_file(body) ==
    CASE body.shape = "dict" -> <<body.items[1]>>
      [] body.shape = "list" -> body.items
      [] OTHER -> <<>>

\* ------------------------------------------------------------------------
\* The destination table
\* ------------------------------------------------------------------------
\* a tuple as a row of aircraft_positions (receiver_id takes its default)
Row(t) == [c \in Columns \cup {"receiver_id"} |->
             IF c = "receiver_id" THEN Str(<<"primary">>) ELSE t[c]]

Key(row) == <<row.icao, row.time>>

HasKey(table, row) == \E i \in 1..Len(table) : Key(table[i]) = Key(row)

\* a plain INSERT, on a table without the unique constraint
InsertRowAlways(table, row) == Append(table, row)

\* ON CONFLICT (icao, time) DO UPDATE: the stored row takes the new values
InsertRowUpdate(table, row) ==
    IF HasKey(table, row)
    THEN [i \in 1..Len(table) |-> IF Key(table[i]) = Key(row) THEN row ELSE table[i]]
    ELSE Append(table, row)

\* INSERT ... ON CONFLICT (icao, time) DO NOTHING of one row into the table
\* as the statement sees it
InsertRow(table, row) == IF HasKey(table, row) THEN table ELSE Append(table, row)

RECURSIVE execute_values_reversed(_, _)
\* execute_values writing the rows of the batch from the last to the first
execute_values_reversed(table, batch) ==
    IF batch = <<>> THEN table
    ELSE execute_values_reversed(InsertRow(table, Row(batch[Len(batch)])),
                                 SubSeq(batch, 1, Len(batch) - 1))

RECURSIVE execute_values(_, _)
\* execute_values(cursor, insert_sql, batch): the table after the batch's rows
execute_values(table, batch) ==
    IF batch = <<>> THEN table
    ELSE execute_values(InsertRow(table, Row(Head(batch))), Tail(batch))

\* records[i:i + batch_size] for a 0-based i
Slice(records, i, batch_size) ==
    SubSeq(records, i + 1, IF i + batch_size > Len(records) THEN Len(records) ELSE i + batch_size)

\* files[:max_files] of line 274
Truncate(fs, k) ==
    IF k >= 0 THEN SubSeq(fs, 1, IF k > Len(fs) THEN Len(fs) ELSE k)
    ELSE SubSeq(fs, 1, IF Len(fs) + k < 0 THEN 0 ELSE Len(fs) + k)

\* ------------------------------------------------------------------------
\* Inputs
\* ------------------------------------------------------------------------
Set(record, field, value) == [record EXCEPT ![field] = value]

\* ICAO A at noon of day 1, altitude "350"
RecPlain ==
    Set(Set(Set(EmptyRecord, "ICAO", Str(<<"A">>)), "Position_Time", Str(Plain(1))),
        "Altitude_ft", Str(<<"350">>))

\* the same aircraft and instant written in another layout, other payload
RecCompact ==
    Set(Set(Set(EmptyRecord, "ICAO", Str(<<" ", "A">>)), "Position_Time", Str(Compact(1))),
        "Latitude", Str(<<"41.5">>))

\* {"ICAO": .., "Position_Time": "2025-01-01T12:00:00Z", "Latitude": "41.5", "Altitude_ft": "350"}
RecIso ==
    Set(Set(Set(Set(EmptyRecord, "ICAO", Str(<<"B">>)), "Position_Time", Str(Iso(1) \o <<"Z">>)),
        "Latitude", Str(<<"41.5">>)), "Altitude_ft", Str(<<"350">>))

\* Position_Time is a JSON number
RecEpoch == Set(Set(EmptyRecord, "ICAO", Str(<<"B">>)), "Position_Time", IntV(350))

Bodies ==
    {Body("error", <<>>),
     Body("scalar", <<>>),
     Body("dict", <<RecIso>>),
     Body("list", <<RecPlain, RecEpoch, RecCompact>>),
     Body("list", <<RecEpoch>>)}

SeqsUpTo(S, n) == UNION {[1..k -> S] : k \in 0..n}

BatchSizes == {0, 1, 2}

\* --max-files: not given, or an integer
MaxFilesArgs == {<<>>, <<1>>}

\* ------------------------------------------------------------------------
\* State
\* ------------------------------------------------------------------------
VARIABLES
    pc,                  \* where the process is
    run,                 \* which invocation of the utility this is
    now,                 \* the last value datetime.now() gave
    sources,             \* what the enumerator finds (the snapshot bodies, sorted)
    batch_size,          \* --batch-size
    max_files,           \* --max-files
    validate_only,       \* --validate-only
    s3_bucket,           \* --s3-bucket is given
    source_dir,          \* --source-dir is given
    available,           \* what the bucket or the directory tree holds, page by page
    listing,             \* main: files, as the enumerator returned it
    conn,                \* self.conn: "closed", "open" or "lost"
    autocommit,          \* self.conn.autocommit
    db,                  \* the committed rows of aircraft_positions
    txn,                 \* the table as the open transaction sees it
    files,               \* migrate_files: files
    total_files,         \* migrate_files: total_files
    file_idx,            \* migrate_files: position in files (1-based)
    records_data,        \* migrate_files: records_data
    rec_idx,             \* migrate_files: position in records_data (1-based)
    record,              \* migrate_files: record
    transformed,         \* migrate_files: transformed (<<>> is None)
    transformed_records, \* migrate_files: transformed_records
    batch_i,             \* batch_insert: i
    inserted,            \* batch_insert: total_inserted
    total_records,       \* migrate_files: total_records
    total_inserted,      \* migrate_files: total_inserted
    result,              \* what main returned
    report,              \* what validate_migration printed
    log,                 \* the chunks submitted in this run and how each ended
    prev,                \* how the previous run ended
    timestamp_str,       \* parse_timestamp: its argument
    dt,                  \* parse_timestamp: what it returned
    workers              \* the calls of batch_insert running side by side on the table

inputs == <<sources, batch_size, max_files, validate_only>>
enumeration == <<s3_bucket, source_dir, available, listing>>
store == <<db, txn>>
connection == <<conn, autocommit>>
loop == <<files, total_files, file_idx, records_data, rec_idx, record, transformed,
          transformed_records>>
counters == <<total_records, total_inserted>>
parse == <<timestamp_str, dt>>
vars == <<pc, run, now, inputs, store, connection, loop, batch_i, inserted, counters,
          result, log, prev, report, enumeration, parse, workers>>

\* the variables of a process that has not started
Idle ==
    /\ conn = "closed"
    /\ autocommit = FALSE
    /\ txn = <<>>
    /\ files = <<>>
    /\ total_files = 0
    /\ file_idx = 1
    /\ records_data = <<>>
    /\ rec_idx = 1
    /\ record = EmptyRecord
    /\ transformed = <<>>
    /\ transformed_records = <<>>
    /\ batch_i = 0
    /\ inserted = 0
    /\ total_records = 0
    /\ total_inserted = 0
    /\ result = "none"
    /\ report = <<>>
    /\ log = <<>>

\* main is given --source-dir, and what the enumerator found there is in
\* sources
Listed ==
    /\ s3_bucket = FALSE
    /\ source_dir = TRUE
    /\ available = <<>>
    /\ listing = <<>>

Init ==
    /\ pc = "start"
    /\ Idle
    /\ run = 1
    /\ now = 1
    /\ sources \in SeqsUpTo(Bodies, MaxFiles)
    /\ batch_size \in BatchSizes
    /\ max_files \in MaxFilesArgs
    /\ validate_only \in BOOLEAN
    /\ Listed
    /\ db = <<>>
    /\ prev = [result |-> "none", clean |-> TRUE, db |-> <<>>]
    /\ timestamp_str = Null
    /\ dt = Null
    /\ workers = <<>>

\* ------------------------------------------------------------------------
\* main, up to the call of migrate_files
\* ------------------------------------------------------------------------
\* connect_db() leaving the connection in autocommit mode
connect_db_autocommit(reachable) ==
    IF reachable THEN [ret |-> TRUE, conn |-> "open", autocommit |-> TRUE]
    ELSE [ret |-> FALSE, conn |-> "closed", autocommit |-> FALSE]

\* connect_db(): what it returns and leaves in self.conn
connect_db(reachable) ==
    IF reachable THEN [ret |-> TRUE, conn |-> "open", autocommit |-> FALSE]
    ELSE [ret |-> FALSE, conn |-> "closed", autocommit |-> FALSE]

\* main returns r; the finally clause closes the connection, and the server
\* drops whatever the transaction had not committed
Return(r) ==
    /\ pc' = "exit"
    /\ result' = r
    /\ conn' = "closed"
    /\ txn' = db

Connect ==
    /\ pc = "start"
    /\ \E reachable \in BOOLEAN :
         LET c == connect_db(reachable)
         IN /\ autocommit' = c.autocommit
            /\ IF c.ret
               THEN /\ pc' = "schema"
                    /\ conn' = c.conn
                    /\ txn' = db
                    /\ UNCHANGED result
               ELSE Return("False")
    /\ UNCHANGED <<run, now, inputs, db, loop, batch_i, inserted, counters, log, prev, report, enumeration, parse,
                   workers>>

\* ensure_schema(): the table and its UNIQUE(icao, time) exist, or it failed
EnsureSchema ==
    /\ pc = "schema"
    /\ \E ok \in BOOLEAN :
         IF ok THEN pc' = "files" /\ UNCHANGED <<result, conn, txn>>
         ELSE Return("False")
    /\ UNCHANGED <<run, now, inputs, db, autocommit, loop, batch_i, inserted, counters, log,
                   prev, report, enumeration, parse, workers>>

\* main, lines 407-422: enumerate, give up when nothing was found
GetFiles ==
    /\ pc = "files"
    /\ ~validate_only
    /\ IF sources = <<>> THEN Return("False")
       ELSE pc' = "migrate" /\ UNCHANGED <<result, conn, txn>>
    /\ UNCHANGED <<run, now, inputs, db, autocommit, loop, batch_i, inserted, counters, log,
                   prev, report, enumeration, parse, workers>>

\* ------------------------------------------------------------------------
\* migrate_files
\* ------------------------------------------------------------------------
\* lines 269-277
StartMigration ==
    /\ pc = "migrate"
    /\ IF max_files # <<>> /\ max_files[1] # 0
       THEN files' = Truncate(sources, max_files[1]) /\ total_files' = max_files[1]
       ELSE files' = sources /\ total_files' = Len(sources)
    /\ file_idx' = 1
    /\ total_records' = 0
    /\ total_inserted' = 0
    /\ pc' = "loop"
    /\ UNCHANGED <<run, now, inputs, store, connection, records_data, rec_idx, record,
                   transformed, transformed_records, batch_i, inserted, result, log, prev, report,
                   enumeration, parse, workers>>

\* lines 279-285: the next file is loaded; one that gives nothing is skipped
LoadFile ==
    /\ pc = "loop"
    /\ file_idx <= Len(files)
    /\ records_data' = load_json_file(files[file_idx])
    /\ IF records_data' = <<>>
       THEN /\ file_idx' = file_idx + 1
            /\ UNCHANGED <<pc, rec_idx, transformed_records>>
       ELSE /\ pc' = "transform"
            /\ rec_idx' = 1
            /\ transformed_records' = <<>>
            /\ UNCHANGED file_idx
    /\ UNCHANGED <<run, now, inputs, store, connection, files, total_files, record,
                   transformed, batch_i, inserted, counters, result, log, prev, report, enumeration, parse,
                   workers>>

\* lines 289-296 and 233-236: one record is transformed at a clock reading t;
\* after the last one the file is skipped when nothing is left of it, or
\* batch_insert starts
TransformNext ==
    /\ pc = "transform"
    /\ rec_idx <= Len(records_data)
    /\ record' = records_data[rec_idx]
    /\ \E t \in Readings(record', now) :
         /\ now' = t
         /\ transformed' = transform_record(record', t)
    /\ transformed_records' = transformed_records \o transformed'
    /\ rec_idx' = rec_idx + 1
    /\ IF rec_idx < Len(records_data)
       THEN UNCHANGED <<pc, file_idx, batch_i, inserted>>
       ELSE IF transformed_records' = <<>>
            THEN /\ file_idx' = file_idx + 1
                 /\ pc' = "loop"
                 /\ UNCHANGED <<batch_i, inserted>>
            ELSE /\ pc' = "insert"
                 /\ batch_i' = 0
                 /\ inserted' = 0
                 /\ UNCHANGED file_idx
    /\ UNCHANGED <<run, inputs, store, connection, files, total_files, records_data,
                   counters, result, log, prev, report, enumeration, parse, workers>>

\* ------------------------------------------------------------------------
\* batch_insert
\* ------------------------------------------------------------------------
\* range(0, len(records), batch_size) has a next value
HasNextBatch == batch_size > 0 /\ batch_i < Len(transformed_records)

Batch == Slice(transformed_records, batch_i, batch_size)

\* total_inserted += batch_size
CountedBatchSize(batch, before, after) == batch_size

\* line 256: what a committed batch adds to total_inserted
Counted(batch, before, after) == Len(batch)

Chunk(outcome) ==
    [file |-> file_idx, i |-> batch_i, n |-> Len(Batch), of |-> Len(transformed_records),
     keys |-> {Key(Row(Batch[k])) : k \in 1..Len(Batch)},
     rows |-> [k \in 1..Len(Batch) |-> Row(Batch[k])], outcome |-> outcome]

\* line 249 with batch_size = 0: range() raises ValueError, which only main catches
RangeRaises ==
    /\ pc = "insert"
    /\ batch_size = 0
    /\ Return("False")
    /\ UNCHANGED <<run, now, inputs, db, autocommit, loop, batch_i, inserted, counters, log,
                   prev, report, enumeration, parse, workers>>

\* lines 250-257: the batch is written and committed
BatchCommitted ==
    /\ pc = "insert"
    /\ HasNextBatch
    /\ LET after == execute_values(txn, Batch)
       IN /\ db' = after
          /\ txn' = after
          /\ inserted' = inserted + Counted(Batch, db, after)
    /\ batch_i' = batch_i + batch_size
    /\ log' = Append(log, Chunk("inserted"))
    /\ UNCHANGED <<pc, run, now, inputs, connection, loop, counters, result, prev, report, enumeration, parse,
                   workers>>

\* lines 253-255 raise: after j rows of the batch (j = len(batch): at the commit),
\* because the statement was rejected or because the connection was lost (and
\* then the server has dropped the transaction)
BatchFails ==
    /\ pc = "insert"
    /\ HasNextBatch
    /\ \E j \in 0..Len(Batch), lost \in BOOLEAN :
         LET partial == execute_values(txn, SubSeq(Batch, 1, j))
         IN /\ txn' = IF lost THEN db ELSE partial
            /\ db' = IF autocommit THEN partial ELSE db
            /\ conn' = IF lost THEN "lost" ELSE conn
    /\ pc' = "except"
    /\ UNCHANGED <<run, now, inputs, autocommit, loop, batch_i, inserted, counters, result,
                   log, prev, report, enumeration, parse, workers>>

\* the except clause leaving the loop after the rollback
RollbackAndStop ==
    /\ pc = "except"
    /\ conn = "open"
    /\ txn' = db
    /\ batch_i' = Len(transformed_records)
    /\ log' = Append(log, Chunk("rolled_back"))
    /\ pc' = "insert"
    /\ UNCHANGED <<run, now, inputs, db, connection, loop, inserted, counters, result, prev, report,
                   enumeration, parse, workers>>

\* the except clause submitting the same batch again after the rollback
RollbackAndRetryLogged ==
    /\ pc = "except"
    /\ conn = "open"
    /\ txn' = db
    /\ log' = Append(log, Chunk("rolled_back"))
    /\ pc' = "insert"
    /\ UNCHANGED <<run, now, inputs, db, connection, loop, batch_i, inserted, counters,
                   result, prev, report, enumeration, parse, workers>>

\* the same, and without a trace
RollbackAndRetry ==
    /\ pc = "except"
    /\ conn = "open"
    /\ txn' = db
    /\ pc' = "insert"
    /\ UNCHANGED <<run, now, inputs, db, connection, loop, batch_i, inserted, counters,
                   result, log, prev, report, enumeration, parse, workers>>

\* lines 259-262: the transaction is rolled back and the loop goes on
Rollback ==
    /\ pc = "except"
    /\ conn = "open"
    /\ txn' = db
    /\ batch_i' = batch_i + batch_size
    /\ log' = Append(log, Chunk("rolled_back"))
    /\ pc' = "insert"
    /\ UNCHANGED <<run, now, inputs, db, connection, loop, inserted, counters, result, prev, report,
                   enumeration, parse, workers>>

\* line 261 on a lost connection: rollback() raises out of the handler, out
\* of batch_insert and migrate_files, to the except clause of main
RollbackRaises ==
    /\ pc = "except"
    /\ conn = "lost"
    /\ log' = Append(log, Chunk("aborted"))
    /\ Return("False")
    /\ UNCHANGED <<run, now, inputs, db, autocommit, loop, batch_i, inserted, counters, prev, report,
                   enumeration, parse, workers>>

\* lines 264 and 299-303: batch_insert returns and the file is accounted for
FinishFile ==
    /\ pc = "insert"
    /\ batch_size # 0
    /\ ~HasNextBatch
    /\ total_records' = total_records + Len(records_data)
    /\ total_inserted' = total_inserted + inserted
    /\ file_idx' = file_idx + 1
    /\ pc' = "loop"
    /\ UNCHANGED <<run, now, inputs, store, connection, files, total_files, records_data,
                   rec_idx, record, transformed, transformed_records, batch_i, inserted,
                   result, log, prev, report, enumeration, parse, workers>>

\* lines 305-312: the summary; migrate_files returns
Summary ==
    /\ pc = "loop"
    /\ file_idx > Len(files)
    /\ pc' = "validate"
    /\ UNCHANGED <<result, conn, txn>>
    /\ UNCHANGED <<run, now, inputs, db, autocommit, loop, batch_i, inserted, counters, log,
                   prev, report, enumeration, parse, workers>>

\* ------------------------------------------------------------------------
\* validate_migration
\* ------------------------------------------------------------------------
\* COUNT(column): the rows where the column is not null
Count(table, column) == Cardinality({i \in 1..Len(table) : table[i][column] # Null})

\* MIN(time) and MAX(time): NULL over no rows
MinTime(table) ==
    IF table = <<>> THEN Null
    ELSE DateTime(CHOOSE n \in {table[i].time.n : i \in 1..Len(table)} :
                      \A i \in 1..Len(table) : n <= table[i].time.n)

MaxTime(table) ==
    IF table = <<>> THEN Null
    ELSE DateTime(CHOOSE n \in {table[i].time.n : i \in 1..Len(table)} :
                      \A i \in 1..Len(table) : n >= table[i].time.n)

Line(label, a, b) == [label |-> label, a |-> a, b |-> b]

\* lines 345-354: the row the completeness query returns
completeness(table) ==
    <<Len(table), Count(table, "latitude"), Count(table, "longitude"),
      Count(table, "altitude_ft"), Count(table, "speed_kt")>>

Queries == 4

\* validate_migration() over the table when its first k queries succeed:
\* what it returns and the lines it printed, "a/b" or "a to b" as Line(.., a, b)
validate_migration(table, k) ==
    LET total == <<Line("Total records in database", IntV(Len(table)), Null)>>
        range == <<Line("Date range", MinTime(table), MaxTime(table))>>
        unique == <<Line("Unique aircraft (ICAO)",
                         IntV(Cardinality({table[i].icao : i \in 1..Len(table)})), Null)>>
        c == completeness(table)
        complete ==
            <<Line("Positions with coordinates", IntV(c[2]), IntV(c[1])),
              Line("Positions with altitude", IntV(c[3]), IntV(c[1])),
              Line("Positions with speed", IntV(c[4]), IntV(c[1]))>>
    IN [ret |-> k = Queries,
        report |-> (IF k >= 1 THEN total ELSE <<>>) \o (IF k >= 2 THEN range ELSE <<>>)
                   \o (IF k >= 3 THEN unique ELSE <<>>) \o (IF k >= 4 THEN complete ELSE <<>>)]

\* lines 403-405: --validate-only, main returns what validate_migration returned
ValidateOnly ==
    /\ pc = "files"
    /\ validate_only
    /\ \E k \in 0..Queries :
         LET v == validate_migration(txn, k)
         IN /\ report' = v.report
            /\ Return(IF v.ret THEN "True" ELSE "False")
    /\ UNCHANGED <<run, now, inputs, db, autocommit, loop, batch_i, inserted, counters, log,
                   prev, enumeration, parse, workers>>

\* main returning what validate_migration returned after a migration too
ValidateDeciding ==
    /\ pc = "validate"
    /\ \E k \in 0..Queries :
         LET v == validate_migration(txn, k)
         IN /\ report' = v.report
            /\ Return(IF v.ret THEN "True" ELSE "False")
    /\ UNCHANGED <<run, now, inputs, db, autocommit, loop, batch_i, inserted, counters, log,
                   prev, enumeration, parse, workers>>

\* lines 429-433: the validation after the migration, its result ignored;
\* main returns True
Validate ==
    /\ pc = "validate"
    /\ \E k \in 0..Queries : report' = validate_migration(txn, k).report
    /\ Return("True")
    /\ UNCHANGED <<run, now, inputs, db, autocommit, loop, batch_i, inserted, counters, log,
                   prev, enumeration, parse, workers>>

Clean(l) == \A k \in 1..Len(l) : l[k].outcome = "inserted"

\* the utility is started again over the same sources and the same table
Rerun ==
    /\ pc = "exit"
    /\ run < MaxRuns
    /\ run' = run + 1
    /\ prev' = [result |-> result, clean |-> Clean(log), db |-> db]
    /\ pc' = "start"
    /\ autocommit' = FALSE
    /\ files' = <<>>
    /\ total_files' = 0
    /\ file_idx' = 1
    /\ records_data' = <<>>
    /\ rec_idx' = 1
    /\ record' = EmptyRecord
    /\ transformed' = <<>>
    /\ transformed_records' = <<>>
    /\ batch_i' = 0
    /\ inserted' = 0
    /\ total_records' = 0
    /\ total_inserted' = 0
    /\ result' = "none"
    /\ log' = <<>>
    /\ report' = <<>>
    /\ UNCHANGED <<now, inputs, store, conn, enumeration, parse, workers>>

Next ==
    \/ Connect
    \/ EnsureSchema
    \/ GetFiles
    \/ StartMigration
    \/ LoadFile
    \/ TransformNext
    \/ RangeRaises
    \/ BatchCommitted
    \/ BatchFails
    \/ Rollback
    \/ RollbackRaises
    \/ FinishFile
    \/ Summary
    \/ ValidateOnly
    \/ Validate
    \/ Rerun

Spec == Init /\ [][Next]_vars

\* ------------------------------------------------------------------------
\* One invocation, over more values of --batch-size and --max-files
\* ------------------------------------------------------------------------
\* a record of aircraft A whose ICAO is missing, null or blank
RecIcao(v) == Set(RecPlain, "ICAO", v)

ArgBodies ==
    {Body("dict", <<RecIcao(v)>>) : v \in {Absent, Null, Str(<<" ">>)}}
    \cup {Body("list", <<RecPlain, RecCompact, RecIso>>)}

\* --batch-size is any int
BatchSizeArgs == {-1, 0, 1, 2}

\* --max-files: not given, or any int from 0
MaxFilesGiven == {<<>>, <<0>>, <<1>>, <<3>>}

InitArgs ==
    /\ pc = "start"
    /\ Idle
    /\ run = 1
    /\ now = 1
    /\ sources \in SeqsUpTo(ArgBodies, MaxFiles)
    /\ batch_size \in BatchSizeArgs
    /\ max_files \in MaxFilesGiven
    /\ validate_only \in BOOLEAN
    /\ Listed
    /\ db = <<>>
    /\ prev = [result |-> "none", clean |-> TRUE, db |-> <<>>]
    /\ timestamp_str = Null
    /\ dt = Null
    /\ workers = <<>>

\* the steps of one invocation
Run ==
    \/ Connect
    \/ EnsureSchema
    \/ GetFiles
    \/ StartMigration
    \/ LoadFile
    \/ TransformNext
    \/ RangeRaises
    \/ BatchCommitted
    \/ BatchFails
    \/ Rollback
    \/ RollbackRaises
    \/ FinishFile
    \/ Summary
    \/ ValidateOnly
    \/ Validate

SpecArgs == InitArgs /\ [][Run]_vars

\* a file that cannot be read, and one of three records, one of them dropped
FailingBodies == {Body("error", <<>>), Body("list", <<RecPlain, RecEpoch, RecCompact>>)}

InitTerminates ==
    /\ pc = "start"
    /\ Idle
    /\ run = 1
    /\ now = 1
    /\ sources \in SeqsUpTo(FailingBodies, MaxFiles)
    /\ batch_size \in BatchSizeArgs
    /\ max_files = <<>>
    /\ validate_only \in BOOLEAN
    /\ Listed
    /\ db = <<>>
    /\ prev = [result |-> "none", clean |-> TRUE, db |-> <<>>]
    /\ timestamp_str = Null
    /\ dt = Null
    /\ workers = <<>>

\* the one thread of the process goes on as long as it has a step to take
SpecTerminates == InitTerminates /\ [][Run]_vars /\ WF_vars(Run)

\* ------------------------------------------------------------------------
\* A run that is interrupted, and the restart
\* ------------------------------------------------------------------------
\* the process is killed, or gets the KeyboardInterrupt that no except
\* Exception clause catches: wherever it is, it ends without another
\* statement. The statement of the batch in progress has written j of its
\* rows, and the server drops what the connection had not committed
Interrupt ==
    /\ pc # "exit"
    /\ \E j \in 0..(IF pc = "insert" /\ HasNextBatch THEN Len(Batch) ELSE 0) :
         LET partial == IF j = 0 THEN txn ELSE execute_values(txn, SubSeq(Batch, 1, j))
         IN /\ db' = IF autocommit /\ conn = "open" THEN partial ELSE db
            /\ txn' = db'
    /\ pc' = "exit"
    /\ result' = "interrupted"
    /\ conn' = "closed"
    /\ UNCHANGED <<run, now, inputs, autocommit, loop, batch_i, inserted, counters, log,
                   prev, report, enumeration, parse, workers>>

\* a file of two records, the second with an ISO timestamp, and a file of one
\* record of the first one's aircraft and instant
InterruptBodies == {Body("list", <<RecPlain, RecIso>>), Body("dict", <<RecCompact>>)}

InitInterrupt ==
    /\ pc = "start"
    /\ Idle
    /\ run = 1
    /\ now = 1
    /\ sources \in SeqsUpTo(InterruptBodies, MaxFiles)
    /\ batch_size \in BatchSizes
    /\ max_files \in MaxFilesArgs
    /\ validate_only \in BOOLEAN
    /\ Listed
    /\ db = <<>>
    /\ prev = [result |-> "none", clean |-> TRUE, db |-> <<>>]
    /\ timestamp_str = Null
    /\ dt = Null
    /\ workers = <<>>

SpecInterrupt == InitInterrupt /\ [][Next \/ Interrupt]_vars

\* ------------------------------------------------------------------------
\* Calls of batch_insert over the same records, each on its own connection
\* ------------------------------------------------------------------------
Workers == 2
MaxRecords == 2

\* tuples of one aircraft and instant with two payloads, and of another aircraft
WorkerTuples == {transform_record(r, 1)[1] : r \in {RecPlain, RecCompact, RecIso}}

\* a call of batch_insert(records, batch_size): at batch i, having written k
\* rows of it; pending are the rows its open transaction has inserted, and
\* failed says that one of its batches has
Worker(records, size) ==
    [records |-> records, batch_size |-> size, i |-> 0, k |-> 0, pending |-> <<>>,
     failed |-> FALSE, state |-> "running"]

WorkerBatch(w) == Slice(workers[w].records, workers[w].i, workers[w].batch_size)

\* the rows of the open transaction of w after its INSERT ... ON CONFLICT
\* (icao, time) DO NOTHING of row: the statement sees what is committed and
\* what its own transaction wrote
Inserted(w, row) ==
    LET after == InsertRow(db \o workers[w].pending, row)
    IN SubSeq(after, Len(db) + 1, Len(after))

\* another transaction has inserted the key of row and has not ended
HeldByOther(w, row) == \E v \in DOMAIN workers : v # w /\ HasKey(workers[v].pending, row)

\* the statement going on without waiting for the transaction that holds the key
WorkerInsertsUnblocked(w) ==
    /\ workers[w].state = "running"
    /\ workers[w].i < Len(workers[w].records)
    /\ workers[w].k < Len(WorkerBatch(w))
    /\ LET row == Row(WorkerBatch(w)[workers[w].k + 1])
       IN workers' = [workers EXCEPT ![w].pending = Inserted(w, row), ![w].k = @ + 1]
    /\ UNCHANGED <<pc, run, now, inputs, store, connection, loop, batch_i, inserted, counters,
                   result, log, prev, report, enumeration, parse>>

\* line 253, one row of the batch: the unique index makes the statement wait
\* while another transaction holds the row's key
WorkerInserts(w) ==
    /\ workers[w].state = "running"
    /\ workers[w].i < Len(workers[w].records)
    /\ workers[w].k < Len(WorkerBatch(w))
    /\ LET row == Row(WorkerBatch(w)[workers[w].k + 1])
       IN /\ ~HeldByOther(w, row)
          /\ workers' = [workers EXCEPT ![w].pending = Inserted(w, row), ![w].k = @ + 1]
    /\ UNCHANGED <<pc, run, now, inputs, store, connection, loop, batch_i, inserted, counters,
                   result, log, prev, report, enumeration, parse>>

\* lines 255-257: the batch is committed
WorkerCommits(w) ==
    /\ workers[w].state = "running"
    /\ workers[w].i < Len(workers[w].records)
    /\ workers[w].k = Len(WorkerBatch(w))
    /\ db' = db \o workers[w].pending
    /\ workers' = [workers EXCEPT ![w].pending = <<>>, ![w].k = 0,
                                  ![w].i = @ + workers[w].batch_size]
    /\ UNCHANGED <<pc, run, now, inputs, txn, connection, loop, batch_i, inserted, counters,
                   result, log, prev, report, enumeration, parse>>

\* lines 259-262: the statement or the commit raises (the server may have
\* chosen the transaction to end a deadlock); the batch is rolled back and
\* the loop goes on, or the connection is lost and the call ends
WorkerFails(w) ==
    /\ workers[w].state = "running"
    /\ workers[w].i < Len(workers[w].records)
    /\ \E lost \in BOOLEAN :
         workers' = [workers EXCEPT ![w].pending = <<>>, ![w].k = 0, ![w].failed = TRUE,
                                    ![w].i = IF lost THEN @ ELSE @ + workers[w].batch_size,
                                    ![w].state = IF lost THEN "raised" ELSE @]
    /\ UNCHANGED <<pc, run, now, inputs, store, connection, loop, batch_i, inserted, counters,
                   result, log, prev, report, enumeration, parse>>

\* line 264
WorkerReturns(w) ==
    /\ workers[w].state = "running"
    /\ workers[w].i >= Len(workers[w].records)
    /\ workers' = [workers EXCEPT ![w].state = "returned"]
    /\ UNCHANGED <<pc, run, now, inputs, store, connection, loop, batch_i, inserted, counters,
                   result, log, prev, report, enumeration, parse>>

\* the calls are interchangeable: they are numbered by batch size
InitWorkers ==
    /\ pc = "batch_insert"
    /\ Idle
    /\ run = 1
    /\ now = 1
    /\ sources = <<>>
    /\ batch_size = 1
    /\ max_files = <<>>
    /\ validate_only = FALSE
    /\ Listed
    /\ db = <<>>
    /\ prev = [result |-> "none", clean |-> TRUE, db |-> <<>>]
    /\ timestamp_str = Null
    /\ dt = Null
    /\ \E records \in SeqsUpTo(WorkerTuples, MaxRecords) :
         workers \in [1..Workers -> {Worker(records, size) : size \in {1, 2}}]
    /\ \A w \in 1..Workers - 1 : workers[w].batch_size <= workers[w + 1].batch_size

Insert == \E w \in DOMAIN workers : WorkerInserts(w)

Commit == \E w \in DOMAIN workers : WorkerCommits(w)

Fail == \E w \in DOMAIN workers : WorkerFails(w)

Return_ == \E w \in DOMAIN workers : WorkerReturns(w)

SpecWorkers == InitWorkers /\ [][Insert \/ Commit \/ Fail \/ Return_]_vars

\* ------------------------------------------------------------------------
\* get_s3_files and get_local_files, and what main does with the list
\* ------------------------------------------------------------------------
\* a name is a sequence of these pieces; no piece begins another, so that
\* Python's order of strings is the order of the first pieces that differ
Ord(piece) ==
    CASE piece = "." -> 46 [] piece = "/" -> 47 [] piece = "a" -> 97 [] piece = "b" -> 98
      [] piece = "c" -> 99 [] piece = "json" -> 106 [] piece = "txt" -> 116

RECURSIVE Less(_, _)
\* s < t, for strings
Less(s, t) ==
    IF t = <<>> THEN FALSE
    ELSE IF s = <<>> THEN TRUE
    ELSE IF Head(s) = Head(t) THEN Less(Tail(s), Tail(t))
    ELSE Ord(Head(s)) < Ord(Head(t))

RECURSIVE sorted_reverse(_)
\* sorted(.., reverse=True)
sorted_reverse(S) ==
    IF S = {} THEN <<>>
    ELSE LET m == CHOOSE x \in S : \A y \in S \ {x} : Less(y, x)
         IN <<m>> \o sorted_reverse(S \ {m})

RECURSIVE sorted(_)
\* sorted(files), of names that are all different
sorted(S) ==
    IF S = {} THEN <<>>
    ELSE LET m == CHOOSE x \in S : \A y \in S \ {x} : Less(x, y)
         IN <<m>> \o sorted(S \ {m})

\* a.json, .b.json, a.txt
FileNames == {<<"a", ".", "json">>, <<".", "b", ".", "json">>, <<"a", ".", "txt">>}

\* b, a, .c
DirNames == {<<"b">>, <<"a">>, <<".", "c">>}

\* one page of the bucket listing, or one directory of the tree: whether it
\* can be listed, and the names in it
Pages == [ok : BOOLEAN, dir : DirNames, names : SUBSET FileNames]

\* the bucket or the tree: pages of different directories
Stores ==
    {ps \in SeqsUpTo(Pages, MaxPages) :
        \A i, j \in 1..Len(ps) : ps[i].dir = ps[j].dir => i = j}

Path(dir, name) == dir \o <<"/">> \o name

\* key.endswith('.json')
EndsWithJson(name) ==
    Len(name) >= 2 /\ name[Len(name) - 1] = "." /\ name[Len(name)] = "json"

\* glob: neither * nor ** matches a name that begins with a dot
Hidden(name) == name # <<>> /\ Head(name) = "."

\* get_s3_files(): a page that fails raises ClientError out of the loop,
\* and the except clause returns []
get_s3_files(pages) ==
    IF \E i \in 1..Len(pages) : ~pages[i].ok THEN <<>>
    ELSE sorted({Path(pages[i].dir, n) : <<i, n>> \in
                    {x \in (1..Len(pages)) \X FileNames :
                        x[2] \in pages[x[1]].names /\ EndsWithJson(x[2])}})

\* get_local_files(source_dir): glob passes over a directory it cannot list
get_local_files(pages) ==
    sorted({Path(pages[i].dir, n) : <<i, n>> \in
               {x \in (1..Len(pages)) \X FileNames :
                   /\ pages[x[1]].ok /\ ~Hidden(pages[x[1]].dir)
                   /\ x[2] \in pages[x[1]].names /\ ~Hidden(x[2]) /\ EndsWithJson(x[2])}})

InitEnumerate ==
    /\ pc = "files"
    /\ conn = "open"
    /\ autocommit = FALSE
    /\ txn = <<>>
    /\ files = <<>>
    /\ total_files = 0
    /\ file_idx = 1
    /\ records_data = <<>>
    /\ rec_idx = 1
    /\ record = EmptyRecord
    /\ transformed = <<>>
    /\ transformed_records = <<>>
    /\ batch_i = 0
    /\ inserted = 0
    /\ total_records = 0
    /\ total_inserted = 0
    /\ result = "none"
    /\ report = <<>>
    /\ log = <<>>
    /\ run = 1
    /\ now = 1
    /\ sources = <<>>
    /\ batch_size = 1
    /\ max_files = <<>>
    /\ validate_only = FALSE
    /\ s3_bucket \in BOOLEAN
    /\ source_dir \in BOOLEAN
    /\ available \in Stores
    /\ listing = <<>>
    /\ db = <<>>
    /\ prev = [result |-> "none", clean |-> TRUE, db |-> <<>>]
    /\ timestamp_str = Null
    /\ dt = Null
    /\ workers = <<>>

\* main, lines 407-418: the bucket is listed, or else the directory, or else
\* main returns False
Enumerate ==
    /\ pc = "files"
    /\ IF s3_bucket
       THEN listing' = get_s3_files(available) /\ pc' = "found"
                 /\ UNCHANGED <<result, conn, txn>>
       ELSE IF source_dir
            THEN listing' = get_local_files(available) /\ pc' = "found"
                 /\ UNCHANGED <<result, conn, txn>>
            ELSE Return("False") /\ UNCHANGED listing
    /\ UNCHANGED <<run, now, inputs, db, autocommit, loop, batch_i, inserted, counters,
                   report, log, prev, s3_bucket, source_dir, available, parse, workers>>

\* main, lines 420-422: no file, no migration
CheckFiles ==
    /\ pc = "found"
    /\ IF listing = <<>> THEN Return("False")
       ELSE pc' = "migrate" /\ UNCHANGED <<result, conn, txn>>
    /\ UNCHANGED <<run, now, inputs, db, autocommit, loop, batch_i, inserted, counters,
                   report, log, prev, enumeration, parse, workers>>

SpecEnumerate == InitEnumerate /\ [][Enumerate \/ CheckFiles]_vars

\* ------------------------------------------------------------------------
\* parse_timestamp and transform_record on their own
\* ------------------------------------------------------------------------
TimeTokens ==
    DashedDates \cup CompactDates \cup {"T", " ", "_", "12:00:00", "120000", ".123456", "Z", "x"}

\* a timestamp of day d in layout k, with or without a trailing Z
LayoutText(k, d, z) ==
    (CASE k = 1 -> IsoMicro(d) [] k = 2 -> Iso(d) [] k = 3 -> Plain(d) [] k = 4 -> Compact(d))
    \o (IF z THEN <<"Z">> ELSE <<>>)

LayoutTexts == {LayoutText(k, d, z) : k \in 1..4, d \in Days, z \in BOOLEAN}

\* what parse_timestamp may be given: record.get(..) of any JSON value
TimestampArgs ==
    {Str(s) : s \in LayoutTexts \cup SeqsUpTo(TimeTokens, 2)}
    \cup {Null, IntV(0), IntV(350), FloatV(83), BoolV(TRUE), BoolV(FALSE), ListV(0), ListV(1)}

JsonValues ==
    {Absent, Null, IntV(0), IntV(350), FloatV(83), Inf, BigInt, BoolV(TRUE), ListV(1),
     Str(<<>>), Str(<<" ">>), Str(<<"350">>), Str(<<" ", "350", " ">>), Str(<<"41.5">>),
     Str(<<"abc">>), Str(<<" ", "A", " ">>)}

TimeValues ==
    {Absent, Null, Str(<<>>), Str(<<"x">>), IntV(0), IntV(350),
     Str(LayoutText(1, 1, TRUE)), Str(LayoutText(2, 1, TRUE)), Str(LayoutText(2, 2, FALSE)),
     Str(LayoutText(3, 1, FALSE)), Str(LayoutText(3, 2, TRUE)), Str(LayoutText(4, 2, FALSE))}

RawRecords ==
    {Set(Set(Set(RecPlain, "Position_Time", p), "Last_Seen", l), "First_Seen", f) :
        p \in TimeValues, l \in TimeValues, f \in TimeValues}
    \cup {Set(b, f, v) : b \in {RecPlain, RecIso}, f \in Fields \ TimeFields, v \in JsonValues}

InitParse ==
    /\ pc = "parse_timestamp"
    /\ Idle
    /\ run = 1
    /\ now = 1
    /\ sources = <<>>
    /\ batch_size = 1
    /\ max_files = <<>>
    /\ validate_only = FALSE
    /\ Listed
    /\ db = <<>>
    /\ prev = [result |-> "none", clean |-> TRUE, db |-> <<>>]
    /\ timestamp_str \in TimestampArgs
    /\ dt = Null
    /\ workers = <<>>

\* parse_timestamp(timestamp_str) is called and returns or raises
ParseTimestamp ==
    /\ pc = "parse_timestamp"
    /\ dt' = parse_timestamp(timestamp_str)
    /\ pc' = "parsed"
    /\ UNCHANGED <<run, now, inputs, store, connection, loop, batch_i, inserted, counters,
                   result, report, log, prev, enumeration, timestamp_str, workers>>

SpecParse == InitParse /\ [][ParseTimestamp]_vars

InitTransform ==
    /\ pc = "transform_record"
    /\ conn = "closed"
    /\ autocommit = FALSE
    /\ txn = <<>>
    /\ files = <<>>
    /\ total_files = 0
    /\ file_idx = 1
    /\ records_data = <<>>
    /\ rec_idx = 1
    /\ record \in RawRecords
    /\ transformed = <<>>
    /\ transformed_records = <<>>
    /\ batch_i = 0
    /\ inserted = 0
    /\ total_records = 0
    /\ total_inserted = 0
    /\ result = "none"
    /\ report = <<>>
    /\ log = <<>>
    /\ run = 1
    /\ now = 1
    /\ sources = <<>>
    /\ batch_size = 1
    /\ max_files = <<>>
    /\ validate_only = FALSE
    /\ Listed
    /\ db = <<>>
    /\ prev = [result |-> "none", clean |-> TRUE, db |-> <<>>]
    /\ timestamp_str = Null
    /\ dt = Null
    /\ workers = <<>>

\* transform_record(record) is called at a clock reading t and returns
TransformRecord ==
    /\ pc = "transform_record"
    /\ \E t \in Readings(record, now) :
         /\ now' = t
         /\ transformed' = transform_record(record, t)
    /\ pc' = "transformed"
    /\ UNCHANGED <<run, inputs, store, connection, files, total_files, file_idx, records_data,
                   rec_idx, record, transformed_records, batch_i, inserted, counters, result,
                   log, prev, report, enumeration, parse, workers>>

SpecTransform == InitTransform /\ [][TransformRecord]_vars

\* ------------------------------------------------------------------------
\* Properties
\* ------------------------------------------------------------------------
Finished == pc = "exit" /\ result = "True"

Last(l) == l[Len(l)]

\* C1: a second run in a row over the same sources, neither run having lost
\* a batch, leaves the table exactly as the first run left it.
C1_RerunAddsNothing ==
    (Finished /\ run > 1 /\ prev.result = "True" /\ prev.clean /\ Clean(log)) => db = prev.db

\* C2: the number of records a completed run reports as inserted is the
\* number of rows the run added to the table.
C2_InsertedCountsNewRows ==
    Finished => total_inserted = Len(db) - Len(prev.db)

\* C3: the table never holds two rows with the same (icao, time).
C3_AtMostOncePerKey ==
    \A i, j \in 1..Len(db) : i # j => Key(db[i]) # Key(db[j])

\* a batch of two records with one key has just been committed, and the key is stored once
C3_Witness ==
    /\ pc = "insert"
    /\ log # <<>>
    /\ Last(log).outcome = "inserted"
    /\ Last(log).n = 2
    /\ Cardinality(Last(log).keys) = 1
    /\ \A key \in Last(log).keys : Cardinality({i \in 1..Len(db) : Key(db[i]) = key}) = 1

\* C4: a stored row is never changed or removed by a later step: the table
\* only grows at its end, also when a committed batch brings a stored key again.
C4_WriteOnce ==
    [][Len(db) <= Len(db') /\ \A i \in 1..Len(db) : db'[i] = db[i]]_vars

\* a batch has just been committed that held a record whose key was stored
\* with other field values
C4_Witness ==
    /\ pc = "insert"
    /\ log # <<>>
    /\ Last(log).outcome = "inserted"
    /\ \E k \in 1..Len(transformed_records) :
         LET row == Row(transformed_records[k])
         IN /\ Key(row) \in Last(log).keys
            /\ \E i \in 1..Len(db) : Key(db[i]) = Key(row) /\ db[i] # row

\* what every step around a failed batch keeps: the committed rows and the count
BatchFailureKeeps ==
    (pc' = "except" \/ pc = "except") => (db' = db /\ inserted' = inserted)

\* C5 as stated: a batch commits all its records, or after any failure the
\* table and the count are as before the batch and the writer goes on with
\* the next batch.
C5_AsStated ==
    [][/\ BatchFailureKeeps
       /\ pc = "except" => (pc' = "insert" /\ batch_i' = batch_i + batch_size)
       /\ (pc = "insert" /\ batch_i' # batch_i /\ inserted' # inserted) =>
             \A k \in 1..Len(Batch) : HasKey(db', Row(Batch[k]))]_vars

\* C5 amended: as stated while the connection is usable; when the connection
\* was lost the table and the count are kept too, but the run ends, failed.
C5_BatchAtomicity ==
    [][/\ BatchFailureKeeps
       /\ (pc = "except" /\ conn = "open") =>
             (pc' = "insert" /\ batch_i' = batch_i + batch_size /\ txn' = db)
       /\ (pc = "except" /\ conn = "lost") => (pc' = "exit" /\ result' = "False")
       /\ (pc = "insert" /\ batch_i' # batch_i /\ inserted' # inserted) =>
             \A k \in 1..Len(Batch) : HasKey(db', Row(Batch[k]))]_vars

\* a batch has failed after some of its rows were written in its transaction
C5_Witness == pc = "except" /\ conn = "open" /\ txn # db

RECURSIVE InsertedIn(_)
\* the records of the committed chunks of a log
InsertedIn(l) ==
    IF l = <<>> THEN 0
    ELSE (IF Head(l).outcome = "inserted" THEN Head(l).n ELSE 0) + InsertedIn(Tail(l))

RolledBack(l) == \E k \in 1..Len(l) : l[k].outcome = "rolled_back"

Written(k, d) == DateTime(2 * d + (IF k = 1 THEN 1 ELSE 0))

\* C7: a timestamp in one of the four layouts, with or without a trailing Z,
\* parses to the instant written in it.
C7_ParsesEveryLayout ==
    pc = "parsed" =>
        \A k \in 1..4, d \in Days, z \in BOOLEAN :
            timestamp_str = Str(LayoutText(k, d, z)) => dt = Written(k, d)

\* C8: transform_record gives a record, with a time, for every raw record.
C8_NeverDropped ==
    pc = "transformed" => (transformed # <<>> /\ transformed[1].time.k = "dt")

InLayout(v) == v.k = "str" /\ v.s \in LayoutTexts

WrittenIn(v) ==
    CHOOSE w \in {Written(k, d) : k \in 1..4, d \in Days} :
        \E k \in 1..4, d \in Days, z \in BOOLEAN : v.s = LayoutText(k, d, z) /\ w = Written(k, d)

\* C9: the time of the record is the instant written in Position_Time when
\* that is in a supported layout, else the one written in Last_Seen when that
\* is, else the clock reading.
C9_TimeResolution ==
    (pc = "transformed" /\ transformed # <<>>) =>
        transformed[1].time =
            IF InLayout(record["Position_Time"]) THEN WrittenIn(record["Position_Time"])
            ELSE IF InLayout(record["Last_Seen"]) THEN WrittenIn(record["Last_Seen"])
            ELSE DateTime(now)

ColumnOf(f) ==
    CASE f = "Latitude" -> "latitude" [] f = "Longitude" -> "longitude"
      [] f = "Distance_NM" -> "distance_nm" [] f = "Heading" -> "heading"
      [] f = "RSSI" -> "rssi" [] f = "Age" -> "age"
      [] f = "Altitude_ft" -> "altitude_ft" [] f = "Speed_kt" -> "speed_kt"
      [] f = "Vertical_Rate_ft_min" -> "vertical_rate_ft_min" [] f = "Messages" -> "messages"

Textual(v) == v.k \in {"absent", "str"}

\* C10: in a record whose timestamps are text or absent, a numeric field
\* that is absent, null or not convertible comes out null, and the record
\* is produced.
C10_NumericFailureGivesNull ==
    (pc = "transformed" /\ \A f \in TimeFields : Textual(record[f])) =>
        \A f \in IntFields \cup FloatFields :
            LET v == Get(record, f)
                r == IF f \in IntFields THEN PyInt(v) ELSE PyFloat(v)
            IN (v = Null \/ IsRaise(r)) =>
                  (transformed # <<>> /\ transformed[1][ColumnOf(f)] = Null)

StringColumnOf(f) ==
    CASE f = "ICAO" -> "icao" [] f = "Ident" -> "flight" [] f = "Airline" -> "airline"
      [] f = "Registration" -> "registration" [] f = "Aircraft_Type" -> "aircraft_type"
      [] f = "Data_Quality" -> "data_quality"

\* the text of a source value, whitespace around it removed; nothing for a
\* value that is absent or null
Trimmed(v) == IF v \in {Absent, Null} THEN <<>> ELSE Strip(PyStr(v))

\* C11: a nullable string column is null when its source is absent or empty
\* after trimming, and else the source value with the whitespace around it
\* removed; icao is the trimmed source value, empty or not.
C11_StringCoercion ==
    (pc = "transformed" /\ transformed # <<>>) =>
        \A f \in StringFields :
            LET out == transformed[1][StringColumnOf(f)]
                text == Trimmed(record[f])
            IN IF f = "ICAO" THEN out = Str(text)
               ELSE out = (IF text = <<>> THEN Null ELSE Str(text))

\* C12: first_seen and last_seen are each the instant written in their own
\* source field when that is in a supported layout, and else the time of
\* the record.
C12_SeenResolvedIndependently ==
    (pc = "transformed" /\ transformed # <<>>) =>
        /\ transformed[1].first_seen =
               IF InLayout(record["First_Seen"]) THEN WrittenIn(record["First_Seen"])
               ELSE transformed[1].time
        /\ transformed[1].last_seen =
               IF InLayout(record["Last_Seen"]) THEN WrittenIn(record["Last_Seen"])
               ELSE transformed[1].time

RECURSIVE LoadedFrom(_)
\* the raw records the loader returns for the sources fs, in all
LoadedFrom(fs) ==
    IF fs = <<>> THEN 0
    ELSE (CASE Head(fs).shape = "dict" -> 1
            [] Head(fs).shape = "list" -> Len(Head(fs).items)
            [] OTHER -> 0) + LoadedFrom(Tail(fs))

\* C13: when a migration has run to its end, the loaded count is the number
\* of raw records the loader returned over all the sources gone through,
\* and the inserted count is the sum of what the submitted chunks returned.
C13_CountersAreSums ==
    (Finished /\ ~validate_only) =>
        /\ total_records = LoadedFrom(files)
        /\ total_inserted = InsertedIn(log)

\* C14: a run that ends before every selected source was gone through has
\* lost its connection to the destination; nothing else stops it.
C14_OnlyConnectionLossStops ==
    (pc = "exit" /\ file_idx <= Len(files)) =>
        \E k \in 1..Len(log) : log[k].outcome = "aborted"

\* C15: the utility exits non-zero when the connection cannot be established
\* or nothing was enumerated, and exits 0 whenever the destination was
\* reached and stayed reachable and a source was enumerated.
C15_ExitStatus ==
    [][(pc' = "exit" /\ pc # "exit" /\ ~validate_only) =>
           /\ pc = "start" => result' = "False"
           /\ (pc = "files" /\ sources = <<>>) => result' = "False"
           /\ (pc \notin {"start", "schema"} /\ sources # <<>> /\ conn = "open")
                  => result' = "True"]_vars

\* the line of the report with a label
Reported(label) == CHOOSE l \in {report[i] : i \in 1..Len(report)} : l.label = label

\* C16: a validation that ran to its end has reported the number of rows,
\* the least and the greatest time (null over no rows), the number of
\* distinct icao, and for coordinates, altitude and speed the number of rows
\* where that column is not null, each out of the number of rows.
C16_ReportIsCorrect ==
    (pc = "exit" /\ Len(report) = 6) =>
        /\ Reported("Total records in database").a = IntV(Len(db))
        /\ Reported("Date range").a = MinTime(db)
        /\ Reported("Date range").b = MaxTime(db)
        /\ Reported("Unique aircraft (ICAO)").a =
               IntV(Cardinality({db[i].icao : i \in 1..Len(db)}))
        /\ Reported("Positions with coordinates") =
               Line("Positions with coordinates", IntV(Count(db, "latitude")), IntV(Len(db)))
        /\ Reported("Positions with altitude") =
               Line("Positions with altitude", IntV(Count(db, "altitude_ft")), IntV(Len(db)))
        /\ Reported("Positions with speed") =
               Line("Positions with speed", IntV(Count(db, "speed_kt")), IntV(Len(db)))

\* C17: validation changes neither the table nor the counters; after a
\* migration main returns True whatever the validation did; in validate-only
\* mode nothing is enumerated, loaded or written.
C17_ValidationReadOnly ==
    /\ [](validate_only =>
            /\ pc \in {"start", "schema", "files", "exit"}
            /\ files = <<>> /\ records_data = <<>> /\ log = <<>> /\ db = <<>>)
    /\ [][(pc = "validate" \/ (pc = "files" /\ validate_only)) =>
              /\ db' = db
              /\ UNCHANGED counters
              /\ pc = "validate" => result' = "True"]_vars

\* a migration that wrote rows has ended, its validation has failed before
\* the last query, and main has returned True
C17_Witness ==
    /\ pc = "exit" /\ ~validate_only /\ result = "True"
    /\ db # <<>> /\ Len(report) < 6

\* C20: the loader gives the one object of a body that is an object, the
\* array of a body that is an array, and nothing for any other body; a
\* source that gives nothing is passed over, table and counters as they
\* were, and the driver is at the next source.
C20_LoadNeverAborts ==
    [][(pc = "loop" /\ file_idx <= Len(files)) =>
           LET body == files[file_idx]
           IN /\ body.shape = "dict" => records_data' = <<body.items[1]>>
              /\ body.shape = "list" => records_data' = body.items
              /\ body.shape \notin {"dict", "list"} => records_data' = <<>>
              /\ records_data' = <<>> =>
                     /\ UNCHANGED <<db, counters>>
                     /\ file_idx' = file_idx + 1
                     /\ pc' = "loop"]_vars

\* a body that is neither object nor array, then one that cannot be read,
\* have been passed over and the run has ended well
C20_Witness ==
    /\ Finished /\ Len(files) = 2 /\ file_idx = 3
    /\ files[1].shape = "scalar" /\ files[2].shape = "error"
    /\ db = <<>> /\ total_records = 0 /\ total_inserted = 0

\* the paths of the names, in the pages ps, that end in .json
JsonPaths(ps) ==
    {Path(ps[i].dir, n) : <<i, n>> \in
        {x \in (1..Len(ps)) \X FileNames : x[2] \in ps[x[1]].names /\ EndsWithJson(x[2])}}

\* the pages of ps that can be listed, in order
Listable(ps) == SelectSeq(ps, LAMBDA p : p.ok)

\* the paths with no directory or file name that begins with a dot
Unhidden(paths) == {p \in paths : ~Hidden(p) /\ \A i \in 1..(Len(p) - 1) : p[i] = "/" => p[i + 1] # "."}

RECURSIVE ListedFirst(_)
\* the pages of a bucket that list before the first one that fails
ListedFirst(ps) ==
    IF ps = <<>> \/ ~Head(ps).ok THEN <<>> ELSE <<Head(ps)>> \o ListedFirst(Tail(ps))

Range(f) == {f[i] : i \in 1..Len(f)}

Ascending(f) == \A i, j \in 1..Len(f) : i < j => Less(f[i], f[j])

C19_PartialEnumeration ==
    LET found == IF s3_bucket THEN JsonPaths(ListedFirst(available))
                 ELSE Unhidden(JsonPaths(Listable(available)))
    IN /\ pc = "found" => Range(listing) = found
       /\ (pc = "exit" /\ (s3_bucket \/ source_dir)) => found = {}

\* C29: a string field that is null in the source is stored as null, as an
\* absent one is.
C29_NullStringIsNull ==
    (pc = "transformed" /\ transformed # <<>>) =>
        \A f \in StringFields \ {"ICAO"} :
            record[f] = Null => transformed[1][StringColumnOf(f)] = Null

\* C23: no stored row has an empty icao, or a placeholder for one.
C23_IcaoNeverEmpty ==
    \A i \in 1..Len(db) : db[i].icao.s # <<>> /\ db[i].icao.s # <<"None">>

Min(a, b) == IF a < b THEN a ELSE b

\* C24: migrate_files goes through the first min(k, n) of the n sources when
\* --max-files k is given and through all n when it is not, each once and
\* in order, and the summary shows the number of sources gone through.
C24_SelectsFirstK ==
    LET n == Len(sources)
        sel == IF max_files = <<>> THEN n ELSE Min(max_files[1], n)
    IN pc = "validate" =>
           /\ files = SubSeq(sources, 1, sel)
           /\ file_idx = sel + 1
           /\ total_files = sel

\* the chunks of the log that belong to the file being written
ChunksOfFile == SelectSeq(log, LAMBDA c : c.file = file_idx)

RECURSIVE Joined(_)
\* the rows of the chunks cs, one after another
Joined(cs) == IF cs = <<>> THEN <<>> ELSE Head(cs).rows \o Joined(Tail(cs))

\* C25: when batch_insert returns, the chunks it submitted are the records
\* cut in order into pieces of batch_size, the last one perhaps shorter:
\* every record is in one chunk and none is in two.
C25_Chunking ==
    [][(pc = "insert" /\ pc' = "loop") =>
           LET cs == ChunksOfFile
           IN /\ Joined(cs) = [k \in 1..Len(transformed_records) |-> Row(transformed_records[k])]
              /\ \A k \in 1..Len(cs) :
                    /\ cs[k].n = Len(cs[k].rows)
                    /\ cs[k].n <= batch_size
                    /\ k < Len(cs) => cs[k].n = batch_size]_vars

\* C26: a chunk is in the log once at most, and not at all while it is being
\* written; it enters the log in one step, as inserted with its keys stored,
\* or else with the table as it was before it (rolled back by the except
\* clause, or dropped by the server with the lost connection); what is in
\* the log stays as it is.
C26_BatchStateMachine ==
    /\ [](/\ \A a, b \in 1..Len(log) :
                a # b => <<log[a].file, log[a].i>> # <<log[b].file, log[b].i>>
          /\ \A k \in 1..Len(log) : log[k].outcome \in {"inserted", "rolled_back", "aborted"}
          /\ (pc \in {"insert", "except"} /\ HasNextBatch) =>
                \A k \in 1..Len(log) : <<log[k].file, log[k].i>> # <<file_idx, batch_i>>)
    /\ [][\/ log' = log
          \/ /\ Len(log') = Len(log) + 1
             /\ SubSeq(log', 1, Len(log)) = log
             /\ Last(log').file = file_idx /\ Last(log').i = batch_i
             /\ IF Last(log').outcome = "inserted"
                THEN \A key \in Last(log').keys : \E i \in 1..Len(db') : Key(db'[i]) = key
                ELSE db' = db]_vars

\* a file of three records was written in chunks of one: the first was
\* rolled back, the second and the third were inserted
C26_Witness ==
    /\ pc = "exit" /\ batch_size = 1 /\ Len(log) = 3
    /\ log[1].outcome = "rolled_back" /\ log[2].outcome = "inserted"
    /\ log[3].outcome = "inserted"
    /\ \A k \in 1..3 : log[k].file = 1 /\ log[k].i = k - 1

\* C27: the number of files gone through, the loaded count and the inserted
\* count never go down; inserted <= loaded and files gone through <= files
\* selected, always; validation leaves them alone.
C27_CountersMonotone ==
    /\ [](total_inserted <= total_records /\ file_idx - 1 <= Len(files))
    /\ [][/\ total_records' >= total_records
          /\ total_inserted' >= total_inserted
          /\ file_idx' >= file_idx
          /\ (pc = "validate" \/ (pc = "files" /\ validate_only)) =>
                UNCHANGED <<counters, file_idx>>]_vars

\* two files went through, the last chunk was shorter than batch_size and
\* one chunk was lost: 0 < inserted < loaded
C27_Witness ==
    /\ Finished /\ batch_size = 2 /\ file_idx = 3
    /\ total_inserted > 0 /\ total_inserted < total_records
    /\ RolledBack(log)

\* C28: a stored row is the first, in the order of processing, of the
\* records with its key in the chunks that were committed.
C28_FirstWriterWins ==
    \A i \in 1..Len(db) :
        \E a \in 1..Len(log) : \E k \in 1..log[a].n :
            /\ log[a].outcome = "inserted"
            /\ log[a].rows[k] = db[i]
            /\ \A b \in 1..Len(log) : \A m \in 1..log[b].n :
                  (log[b].outcome = "inserted" /\ Key(log[b].rows[m]) = Key(db[i]))
                      => (b > a \/ (b = a /\ m >= k))

\* the chunk with the first record of a key was rolled back, two later
\* chunks with that key and other values were committed, and the row has
\* the values of the earlier of the two
C28_Witness ==
    /\ pc = "exit"
    /\ \E a, b, c \in 1..Len(log) : \E i \in 1..Len(db) :
         /\ a < b /\ b < c
         /\ log[a].outcome = "rolled_back" /\ log[b].outcome = "inserted"
         /\ log[c].outcome = "inserted"
         /\ log[a].n = 1 /\ log[b].n = 1 /\ log[c].n = 1
         /\ Key(log[a].rows[1]) = Key(db[i]) /\ Key(log[c].rows[1]) = Key(db[i])
         /\ log[b].rows[1] = db[i]
         /\ log[a].rows[1] # db[i] /\ log[c].rows[1] # db[i]

\* C30: every run ends: it reaches its summary and exits, or it exits on a
\* failure of the connection, whatever fails on the way.
C30_Terminates == <>(pc = "exit")

\* a run has ended after a file that could not be used, a rolled back chunk
\* and a committed one
C30_Witness ==
    /\ pc = "exit" /\ result = "True" /\ Len(files) = 2
    /\ files[1].shape = "error" /\ files[2].shape = "list"
    /\ \E a, b \in 1..Len(log) :
         log[a].outcome = "rolled_back" /\ log[b].outcome = "inserted" /\ log[a].file = log[b].file

RECURSIVE Committed(_, _)
\* the table after the committed chunks of l, written in their order
Committed(table, l) ==
    IF l = <<>> THEN table
    ELSE Committed(IF Head(l).outcome = "inserted"
                   THEN [k \in 1..Len(table) + Len(Head(l).rows) |->
                           IF k <= Len(table) THEN table[k] ELSE Head(l).rows[k - Len(table)]]
                   ELSE table, Tail(l))

RECURSIVE Distinct(_)
\* the rows of a sequence without those whose key an earlier one has
Distinct(rows) ==
    IF rows = <<>> THEN <<>>
    ELSE LET init == Distinct(SubSeq(rows, 1, Len(rows) - 1))
         IN InsertRow(init, rows[Len(rows)])

RECURSIVE RecordsOf(_)
\* the raw records of a list of files, in order
RecordsOf(fs) == IF fs = <<>> THEN <<>> ELSE load_json_file(Head(fs)) \o RecordsOf(Tail(fs))

RECURSIVE Migrated(_, _, _)
\* the tables a run in which no batch fails and that nothing interrupts can
\* leave, from table and over the records recs, the clock being at last
Migrated(table, recs, last) ==
    IF recs = <<>> THEN {table}
    ELSE UNION {Migrated(execute_values(table, transform_record(Head(recs), t)), Tail(recs), t) :
                  t \in Readings(Head(recs), last)}

\* the row sets of the uninterrupted runs over the files fs into the empty table
Uninterrupted(fs) == {Range(t) : t \in UNION {Migrated(<<>>, RecordsOf(fs), c) : c \in 1..MaxClock}}

\* C22: when a run is interrupted the table holds the rows of the batches
\* committed before (written onto what the table held at the start) and
\* nothing of the batch in progress; and when no batch of the interrupted
\* run had failed, a run restarted over the same sources, itself completing
\* with every batch committed, leaves the row set that an uninterrupted run
\* into the empty table leaves.
C22_InterruptionSafe ==
    /\ (pc = "exit" /\ result = "interrupted") => db = Distinct(Committed(prev.db, log))
    /\ (/\ run = 2 /\ prev.result = "interrupted" /\ prev.clean
        /\ pc = "exit" /\ result = "True" /\ ~validate_only /\ batch_size > 0 /\ Clean(log))
         => Range(db) \in Uninterrupted(files)

\* no two rows of the table have the same (icao, time)
Unique(table) == \A i, j \in 1..Len(table) : Key(table[i]) = Key(table[j]) => i = j

RECURSIVE Sequentially(_, _)
\* the table after the calls of the first n workers, one after the other
Sequentially(table, n) ==
    IF n = 0 THEN table
    ELSE execute_values(Sequentially(table, n - 1), workers[n].records)

\* C21: while calls of batch_insert over the same records run side by side,
\* each on its own connection, no two rows of the table have the same
\* (icao, time), neither among the committed rows nor as any of the
\* transactions sees the table; and when all the calls have returned and no
\* batch has failed, the rows are those that the calls leave when they run
\* one after the other.
C21_ConcurrentWriters ==
    /\ Unique(db)
    /\ \A w \in DOMAIN workers : Unique(db \o workers[w].pending)
    /\ (\A w \in DOMAIN workers : workers[w].state = "returned" /\ ~workers[w].failed)
         => Range(db) = Range(Sequentially(<<>>, Len(workers)))

\* a call waits: the key of its next row is held by the open transaction of
\* the other call, whose batch has another size, while a row is committed
\* and no batch has failed
C21_Witness ==
    /\ Len(workers) >= 2
    /\ \A w \in DOMAIN workers : workers[w].state = "running" /\ ~workers[w].failed
    /\ \E v, w \in DOMAIN workers : workers[v].batch_size # workers[w].batch_size
    /\ db # <<>>
    /\ \E w \in DOMAIN workers :
         /\ workers[w].k < Len(WorkerBatch(w))
         /\ HeldByOther(w, Row(WorkerBatch(w)[workers[w].k + 1]))

====
